---- MODULE Spec2Model ----
(***************************************************************************)
(* Empathic Listener (App.jsx): the send / cache / retry orchestration,    *)
(* the session state held by useLocalStorageState, import and clear.       *)
(*                                                                         *)
(* Representation                                                          *)
(*  - A JavaScript string is a sequence of one-character strings; a fixed  *)
(*    template literal of the source is a single element of the sequence.  *)
(*  - A JavaScript value is a record with a "type" field (JNum, JStr, ...).*)
(*  - Numbers are held in hundredths (0.7 is 70, topK 40 is 4000), so that *)
(*    the float settings stay integers.                                    *)
(***************************************************************************)
EXTENDS Integers, Sequences, FiniteSets, TLC

(* ------------------------------ bounds --------------------------------- *)
\* number of send() calls that pass the guards in one session
MaxSends == 2
\* number of settings edits in one session
MaxEdits == 1
\* number of files imported in one session
MaxImports == 1

(* --------------------------- JavaScript values ------------------------- *)
Undefined == [type |-> "undefined"]
JNull == [type |-> "null"]
JNum(n) == [type |-> "number", val |-> n]
JNaN == [type |-> "number", nan |-> TRUE]
JStr(s) == [type |-> "string", val |-> s]
JBool(b) == [type |-> "boolean", val |-> b]
JArr(s) == [type |-> "array", items |-> s]

\* property read: o.k, undefined when the property is absent
Get(o, k) == IF k \in DOMAIN o THEN o[k] ELSE Undefined

IsNaN(v) == "nan" \in DOMAIN v

\* typeof v
TypeOf(v) == IF v.type \in {"null", "array", "object"} THEN "object" ELSE v.type

\* ToBoolean(v), the test made by !v, v || d and v ? a : b
Truthy(v) ==
    CASE v.type \in {"undefined", "null"} -> FALSE
      [] v.type = "boolean" -> v.val
      [] v.type = "number" -> ~IsNaN(v) /\ v.val # 0
      [] v.type = "string" -> v.val # <<>>
      [] OTHER -> TRUE

\* a || b
Or(a, b) == IF Truthy(a) THEN a ELSE b

(* ------------------------------ strings -------------------------------- *)
WhiteSpace == {" ", "\n", "\t"}
Digits == <<"0", "1", "2", "3", "4", "5", "6", "7", "8", "9">>
IsDigit(c) == \E i \in 1..10 : Digits[i] = c
DigitVal(c) == (CHOOSE i \in 1..10 : Digits[i] = c) - 1

RECURSIVE TrimStart(_)
TrimStart(s) ==
    IF s # <<>> /\ Head(s) \in WhiteSpace THEN TrimStart(Tail(s)) ELSE s

RECURSIVE TrimEnd(_)
TrimEnd(s) ==
    IF s # <<>> /\ s[Len(s)] \in WhiteSpace
    THEN TrimEnd(SubSeq(s, 1, Len(s) - 1))
    ELSE s

\* String.prototype.trim
Trim(s) == TrimEnd(TrimStart(s))

Upper == <<"S", "A", "D", "H", "P", "Y">>
LowerOf == <<"s", "a", "d", "h", "p", "y">>
LowerChar(c) ==
    IF \E i \in 1..Len(Upper) : Upper[i] = c
    THEN LowerOf[CHOOSE i \in 1..Len(Upper) : Upper[i] = c]
    ELSE c

\* String.prototype.toLowerCase
ToLowerCase(s) == [i \in 1..Len(s) |-> LowerChar(s[i])]

\* String.prototype.includes
Includes(s, w) ==
    \E i \in 1..(Len(s) - Len(w) + 1) : SubSeq(s, i, i + Len(w) - 1) = w

\* String.prototype.startsWith
StartsWith(s, w) == Len(s) >= Len(w) /\ SubSeq(s, 1, Len(w)) = w

\* index of the first c in s, 0 when there is none
IndexOf(s, c) ==
    IF \E i \in 1..Len(s) : s[i] = c
    THEN CHOOSE i \in 1..Len(s) : s[i] = c /\ \A j \in 1..(i - 1) : s[j] # c
    ELSE 0

(* ------------------------------ numbers -------------------------------- *)
RECURSIVE DigitsValue(_)
DigitsValue(s) ==
    IF s = <<>> THEN 0 ELSE 10 * DigitsValue(SubSeq(s, 1, Len(s) - 1)) + DigitVal(s[Len(s)])

AllDigits(s) == \A i \in 1..Len(s) : IsDigit(s[i])

\* the value, in hundredths, of a decimal literal d+ or d+.d or d+.dd
DecimalValue(s) ==
    LET dot == IndexOf(s, ".")
        int == IF dot = 0 THEN s ELSE SubSeq(s, 1, dot - 1)
        frac == IF dot = 0 THEN <<>> ELSE SubSeq(s, dot + 1, Len(s))
    IN  100 * DigitsValue(int)
          + (IF Len(frac) = 1 THEN 10 * DigitsValue(frac) ELSE DigitsValue(frac))

IsDecimal(s) ==
    LET dot == IndexOf(s, ".")
        int == IF dot = 0 THEN s ELSE SubSeq(s, 1, dot - 1)
        frac == IF dot = 0 THEN <<>> ELSE SubSeq(s, dot + 1, Len(s))
    IN  /\ int # <<>> /\ AllDigits(int)
        /\ AllDigits(frac) /\ Len(frac) <= 2
        /\ (dot # 0 => frac # <<>>)

\* StringToNumber on the trimmed text, with an optional sign
StringToNumber(s) ==
    LET t == Trim(s)
    IN  IF t = <<>> THEN JNum(0)
        ELSE IF Head(t) = "-" /\ IsDecimal(Tail(t)) THEN JNum(0 - DecimalValue(Tail(t)))
        ELSE IF IsDecimal(t) THEN JNum(DecimalValue(t))
        ELSE JNaN

\* Number(v)
Number(v) ==
    CASE v.type = "number" -> v
      [] v.type = "string" -> StringToNumber(v.val)
      [] v.type = "boolean" -> JNum(IF v.val THEN 100 ELSE 0)
      [] v.type = "null" -> JNum(0)
      [] OTHER -> JNaN

Max(a, b) == IF a >= b THEN a ELSE b
Min(a, b) == IF a <= b THEN a ELSE b

\* const clamp = (v, a, b) => Math.max(a, Math.min(v, b))
clamp(v, a, b) == Max(a, Min(v, b))

(* ------------------------- Sentiment Hinter ---------------------------- *)
NEG ==
    << <<"s", "a", "d">>,
       <<"d", "e", "p", "r", "e", "s", "s", "e", "d">>,
       <<"a", "n", "x", "i", "o", "u", "s">>,
       <<"a", "n", "x", "i", "e", "t", "y">>,
       <<"s", "t", "r", "e", "s", "s", "e", "d">>,
       <<"a", "l", "o", "n", "e">>,
       <<"l", "o", "n", "e", "l", "y">>,
       <<"a", "n", "g", "r", "y">>,
       <<"u", "p", "s", "e", "t">>,
       <<"h", "u", "r", "t">>,
       <<"a", "s", "h", "a", "m", "e", "d">>,
       <<"g", "u", "i", "l", "t", "y">>,
       <<"t", "i", "r", "e", "d">>,
       <<"o", "v", "e", "r", "w", "h", "e", "l", "m", "e", "d">>,
       <<"p", "a", "n", "i", "c">>,
       <<"c", "r", "y">>,
       <<"h", "a", "t", "e">>,
       <<"w", "o", "r", "t", "h", "l", "e", "s", "s">>,
       <<"f", "a", "i", "l", "u", "r", "e">>,
       <<"l", "o", "s", "t">>,
       <<"h", "o", "p", "e", "l", "e", "s", "s">>,
       <<"s", "u", "i", "c", "i", "d", "a", "l">> >>

POS ==
    << <<"g", "r", "a", "t", "e", "f", "u", "l">>,
       <<"h", "a", "p", "p", "y">>,
       <<"h", "o", "p", "e", "f", "u", "l">>,
       <<"e", "x", "c", "i", "t", "e", "d">>,
       <<"p", "r", "o", "u", "d">>,
       <<"c", "a", "l", "m">>,
       <<"r", "e", "l", "i", "e", "v", "e", "d">>,
       <<"l", "o", "v", "e">>,
       <<"o", "p", "t", "i", "m", "i", "s", "t", "i", "c">>,
       <<"p", "r", "o", "g", "r", "e", "s", "s">>,
       <<"p", "e", "a", "c", "e">> >>

\* the number of elements of the list ws that text t includes
RECURSIVE CountIncluded(_, _)
CountIncluded(t, ws) ==
    IF ws = <<>> THEN 0
    ELSE (IF Includes(t, Head(ws)) THEN 1 ELSE 0) + CountIncluded(t, Tail(ws))

\* the number of places at which w occurs in t
Occurrences(t, w) ==
    Cardinality({i \in 1..(Len(t) - Len(w) + 1) : SubSeq(t, i, i + Len(w) - 1) = w})

\* mutant of sentimentScore: a keyword counts once for each occurrence
sentimentScoreCountsRepeats(text) ==
    LET t == ToLowerCase(text)
        Sum(ws) == LET RECURSIVE F(_)
                       F(k) == IF k = 0 THEN 0 ELSE Occurrences(t, ws[k]) + F(k - 1)
                   IN  F(Len(ws))
    IN  Sum(POS) - Sum(NEG)

\* function sentimentScore(text)
sentimentScore(text) ==
    IF text = <<>> THEN 0
    ELSE LET t == ToLowerCase(text)
         IN  CountIncluded(t, POS) - CountIncluded(t, NEG)

(* -------------------------- Prompt Composer ---------------------------- *)
SummarizeTemplate == "Summarize this in 3 bullets and 1 next step.\n\n"
ReframeTemplate == "Reframe this thought compassionately and propose one experiment.\n\n"
CoachTemplate == "Act as a supportive coach: ask one clarifying question, then suggest a next action.\n\n"
JournalTemplate == "Help me journal: give a 4-line guided prompt, then hold space for 60 seconds (describe a quick breathing anchor).\n\n"

\* const routeSlashCommand = (text) => ...
routeSlashCommand(text) ==
    LET t == Trim(text)
        r == Tail(t)
        sp == IndexOf(r, " ")
        cmd == ToLowerCase(IF sp = 0 THEN r ELSE SubSeq(r, 1, sp - 1))
        body == IF sp = 0 THEN <<>> ELSE SubSeq(r, sp + 1, Len(r))
    IN  IF ~StartsWith(t, <<"/">>) THEN text
        ELSE CASE cmd = <<"s", "u", "m", "m", "a", "r", "i", "z", "e">> -> <<SummarizeTemplate>> \o body
               [] cmd = <<"r", "e", "f", "r", "a", "m", "e">> -> <<ReframeTemplate>> \o body
               [] cmd = <<"c", "o", "a", "c", "h">> -> <<CoachTemplate>> \o body
               [] cmd = <<"j", "o", "u", "r", "n", "a", "l">> -> <<JournalTemplate>> \o body
               [] OTHER -> text

Preamble == "You are an empathic, trauma-informed AI listener. Avoid medical/clinical claims. Be kind, concise and specific. Use plain language.\nTone: "
Scaffold == "\n\nFollow this structure briefly: 1) Reflect what you heard, 2) Name underlying needs/values, 3) Offer 2 options (self-care + practical), 4) Ask a small open question."
UserMessageLabel == "\n\nUser message: "

toneHint(sScore) ==
    IF sScore < 0 THEN "gentle, validating, non-judgmental"
    ELSE IF sScore > 0 THEN "encouraging, balanced"
    ELSE "neutral, respectful"

\* const enhancePrompt = (raw) => ..., st the state the closure captured
enhancePrompt(raw, st) ==
    LET empathicScaffold == IF Truthy(Get(st, "empathicMode")) THEN <<Scaffold>> ELSE <<>>
    IN  <<Preamble, toneHint(sentimentScore(raw)), ".">> \o empathicScaffold
          \o <<UserMessageLabel>> \o raw

(* --------------------------- Session State ----------------------------- *)
\* { ...o, [k]: v }
Put(o, k, v) == [x \in DOMAIN o \cup {k} |-> IF x = k THEN v ELSE o[x]]

Preset(label, prompt) == [label |-> JStr(<<label>>), prompt |-> JStr(<<prompt>>)]

\* the initial value handed to useLocalStorageState
DefaultState ==
    [ type |-> "object",
      apiKey |-> JStr(<<>>),
      temperature |-> JNum(70),
      topP |-> JNum(95),
      topK |-> JNum(4000),
      quickReplies |-> JBool(TRUE),
      empathicMode |-> JBool(TRUE),
      model |-> JStr(<<"gemini-2.0-flash">>),
      chat |-> JArr(<<>>),
      input |-> JStr(<<>>),
      presets |-> JArr(<<
          Preset("Empathic", "Please listen with empathy and reflect feelings, needs, and offer gentle next steps."),
          Preset("Coach", "Act as a supportive life coach. Ask one clarifying question, then suggest a next action."),
          Preset("Solution", "Be concise and solution-focused: summarize problem in one line; list 3 options; ask for preference."),
          Preset("Journal", "You are a reflective journaling companion. Reframe my thoughts without judgment and suggest a 2-minute exercise.") >>) ]

(* ----------------------- JSON texts (files, storage) ------------------- *)
\* A text is modelled by what JSON.parse makes of it: a syntax error, or the
\* value it denotes.
BadText(s) == [syntax |-> FALSE, raw |-> s]
JsonText(v) == [syntax |-> TRUE, raw |-> "json", val |-> v]
EmptyText == BadText("")

\* JSON.parse: [ok |-> FALSE] stands for the SyntaxError thrown
JSONparse(t) == IF t.syntax THEN [ok |-> TRUE, val |-> t.val] ELSE [ok |-> FALSE]

\* a session saved earlier: the Settings panel stores the text of its inputs
SavedState ==
    [DefaultState EXCEPT !.apiKey = JStr(<<"saved-key">>),
                         !.temperature = JStr(<<"5">>),
                         !.topP = JNum(-50),
                         !.topK = JStr(<<"0">>),
                         !.chat = JArr(<< [role |-> "user", text |-> <<"h", "i">>, sid |-> 0] >>)]

\* {"chat": "not-an-array"}
NotArrayChat == [type |-> "object", chat |-> JStr(<<"not-an-array">>)]

\* {"chat": [], "presets": [], "temperature": 0, "topK": 500}: an object that
\* lacks most fields
PartialState ==
    [type |-> "object", chat |-> JArr(<<>>), presets |-> JArr(<<>>),
     temperature |-> JNum(0), topK |-> JNum(50000)]

\* an export edited by hand: a key, a non-numeric temperature, topP too large
EditedState ==
    [DefaultState EXCEPT !.apiKey = JStr(<<"file-key">>),
                         !.temperature = JStr(<<"h", "i">>),
                         !.topP = JNum(150),
                         !.empathicMode = JBool(FALSE)]

JsonValues ==
    { JNull, JNum(700), JBool(FALSE), JStr(<<"h", "i">>), JArr(<<>>),
      NotArrayChat, PartialState, EditedState }

\* what a user may pick in the file dialog
Files == {BadText("{oops")} \cup {JsonText(v) : v \in JsonValues}

\* what localStorage.getItem(LOCAL_KEY) may return at start-up: null when the
\* key is absent, else the text stored
NoItem == [absent |-> TRUE]
StoredItems ==
    {NoItem, EmptyText, BadText("{oops")}
       \cup {JsonText(v) : v \in {JNull, JNum(700), JArr(<<>>), NotArrayChat, SavedState}}

\* useState initialiser of useLocalStorageState:
\*   try { raw = getItem(key); return raw ? JSON.parse(raw) : initial } catch { return initial }
LoadState(item, initial) ==
    IF "absent" \in DOMAIN item \/ item = EmptyText THEN initial
    ELSE LET p == JSONparse(item)
         IN  IF p.ok THEN p.val ELSE initial

\* The JSX of App reads state.presets.map, state.chat.length and state.chat.map:
\* rendering throws unless both are arrays, and React then unmounts the tree.
Renders(s) ==
    /\ s.type \in {"object", "array"}
    /\ Get(s, "presets").type = "array"
    /\ Get(s, "chat").type = "array"

(* ------------------------------ network -------------------------------- *)
\* what axios.post may settle with: a 2xx response (with or without the text
\* at candidates[0].content.parts[0].text), an HTTP error response (with or
\* without data.error.message), or no response at all
Resolved(text) == [settled |-> "resolved", text |-> text]
HttpError(status, message) == [settled |-> "rejected", status |-> status, message |-> message]
NetworkError == [settled |-> "rejected"]

Settlements ==
    { Resolved(JStr(<<"reply">>)),
      Resolved(Undefined),
      NetworkError,
      HttpError(500, JStr(<<"internal">>)),
      HttpError(429, Undefined) }

(* ------------------------------- state --------------------------------- *)
VARIABLES
    stored,     \* localStorage[LOCAL_KEY]: read at start-up, written by the timeout
    envKey,     \* import.meta.env.VITE_API_GENERATIVE_LANGUAGE_CLIENT
    state,      \* the Session State of useLocalStorageState
    busy,       \* const [busy, setBusy] = useState(false)
    cacheRef,   \* cacheRef.current, a Map from question to response text
    sends,      \* the send() calls that passed the guards, in call order
    mounted,    \* whether App is still rendered
    edits,      \* settings edits made so far
    imports,    \* files imported so far
    notice,     \* the alert() raised by the handler that ran last, if any
    timer       \* the setTimeout the effect of useLocalStorageState has pending

vars == <<stored, envKey, state, busy, cacheRef, sends, mounted, edits, imports, notice, timer>>

(* --------------------------- persistence ------------------------------- *)
\* JSON.stringify(state): the text is modelled by the value it parses back to
JSONstringify(v) == JsonText(v)

\* the timeout of lines 49-53, whose callback closes over the state of the
\* render that scheduled it; NoTimer after it has fired or was cleared
NoTimer == [pending |-> FALSE]
Pending(s) == [pending |-> TRUE, value |-> s]

\* lines 48-56, after a render with a new state object: the cleanup clears
\* the pending timeout and the effect sets a new one. A render that throws
\* commits no effect, and unmounting runs the cleanup only.
Effect == timer' = IF mounted' THEN Pending(state') ELSE NoTimer

MAX_ATTEMPTS == 3
InitialDelay == 1200

GenericError == "Sorry, something went wrong. Please try again."
Heart == "<heart> \n\n"

\* what the user may type into the textarea
Inputs ==
    { <<" ", "s", "a", "d", " ">>,
      <<"h", "i">> }

\* what the Settings panel may write: e.target.value is a string
SettingEdits ==
    { <<"apiKey", JStr(<<"user-key">>)>>,
      <<"empathicMode", JBool(FALSE)>> }

NoNotice == ""
MissingKeyNotice == "Missing API key. Paste your Google Generative Language API key in Settings (gear icon)."
ImportFailedNotice == "Import failed: "

\* the start-ups explored: every stored item without a build-time key, and a
\* first run with one
Boots ==
    {<<item, Undefined>> : item \in StoredItems} \cup {<<NoItem, JStr(<<"env-key">>)>>}

EmptyMap == [q \in {} |-> <<>>]

Init ==
    /\ \E b \in Boots : stored = b[1] /\ envKey = b[2]
    /\ state = LoadState(stored, DefaultState)
    /\ mounted = Renders(state)
    /\ timer = (IF Renders(state) THEN Pending(state) ELSE NoTimer)
    /\ busy = FALSE
    /\ cacheRef = EmptyMap
    /\ sends = <<>>
    /\ edits = 0
    /\ imports = 0
    /\ notice = NoNotice

\* mutant of AppendChat: the message is put first, chat: [m, ...s.chat]
PrependChat(s, m) == Put(s, "chat", JArr(<<m>> \o s.chat.items))

\* setState((s) => ({ ...s, chat: [...s.chat, m] }))
AppendChat(s, m) == Put(s, "chat", JArr(s.chat.items \o <<m>>))

(* ------------------------------- send ---------------------------------- *)
\* state.apiKey || import.meta?.env?.VITE_API_GENERATIVE_LANGUAGE_CLIENT || ''
ApiKeyOf(s) == Or(Or(Get(s, "apiKey"), envKey), JStr(<<>>))

\* state.input.trim() throws a TypeError unless state.input is a string
InputIsString == Get(state, "input").type = "string"
question == Trim(state.input.val)

\* generationConfig of the payload, from the state the closure captured
GenerationConfig(st) ==
    [ temperature |-> clamp(Or(Number(Get(st, "temperature")), JNum(70)).val, 0, 200),
      topP |-> clamp(Or(Number(Get(st, "topP")), JNum(95)).val, 0, 100),
      topK |-> clamp(Or(Number(Get(st, "topK")), JNum(4000)).val, 100, 20000),
      candidateCount |-> 100 ]

\* the request of one loop iteration: axios.post(GEMINI_ENDPOINT(apiKey), payload)
Request(key, enhanced, st) ==
    [ key |-> key,
      contents |-> enhanced,
      generationConfig |-> GenerationConfig(st) ]

\* the fields of the captured state that send reads after its first await
Captured(s) ==
    [ type |-> "object",
      temperature |-> Get(s, "temperature"),
      topP |-> Get(s, "topP"),
      topK |-> Get(s, "topK"),
      empathicMode |-> Get(s, "empathicMode") ]

\* lines 349-350
Outgoing == [role |-> "user", text |-> question, sid |-> Len(sends) + 1]
WithOutgoing == Put(AppendChat(state, Outgoing), "input", JStr(<<>>))

\* line 335: state.input is not a string, the handler throws at once
SendThrows ==
    /\ mounted
    /\ ~InputIsString
    /\ notice' = NoNotice
    /\ UNCHANGED <<stored, envKey, state, timer, busy, cacheRef, sends, mounted, edits, imports>>

\* line 336: if (!question || busy) return
SendIgnored ==
    /\ mounted
    /\ InputIsString
    /\ (question = <<>> \/ busy)
    /\ notice' = NoNotice
    /\ UNCHANGED <<stored, envKey, state, timer, busy, cacheRef, sends, mounted, edits, imports>>

\* mutant of SendMissingKey: the key is tested after the user message is appended
SendMissingKeyAfterAppend ==
    /\ mounted
    /\ InputIsString
    /\ ~(question = <<>> \/ busy)
    /\ ~Truthy(ApiKeyOf(state))
    /\ state' = WithOutgoing
    /\ notice' = MissingKeyNotice
    /\ UNCHANGED <<stored, envKey, busy, cacheRef, sends, mounted, edits, imports>>
    /\ Effect

\* lines 338-347: no API key, alert and return
SendMissingKey ==
    /\ mounted
    /\ InputIsString
    /\ ~(question = <<>> \/ busy)
    /\ ~Truthy(ApiKeyOf(state))
    /\ notice' = MissingKeyNotice
    /\ UNCHANGED <<stored, envKey, state, timer, busy, cacheRef, sends, mounted, edits, imports>>

SendAccepted ==
    /\ mounted
    /\ InputIsString
    /\ ~(question = <<>> \/ busy)
    /\ Truthy(ApiKeyOf(state))
    /\ Len(sends) < MaxSends

\* lines 349-363: the user message, then the cached reply
SendCacheHit ==
    /\ SendAccepted
    /\ question \in DOMAIN cacheRef
    /\ state' = AppendChat(WithOutgoing,
                   [role |-> "assistant", text |-> cacheRef[question],
                    cached |-> TRUE, sid |-> Len(sends) + 1])
    /\ sends' = Append(sends,
                   [question |-> question, pc |-> "done", outcome |-> "cached"])
    /\ notice' = NoNotice
    /\ UNCHANGED <<stored, envKey, busy, cacheRef, mounted, edits, imports>>
    /\ Effect

\* lines 349-386: the user message, setBusy(true), the first request
SendStart ==
    /\ SendAccepted
    /\ question \notin DOMAIN cacheRef
    /\ state' = WithOutgoing
    /\ busy' = TRUE
    /\ sends' = Append(sends,
                   [question |-> question, st |-> Captured(state), pc |-> "request",
                    outcome |-> "pending", attempt |-> 0, delay |-> InitialDelay,
                    requests |-> 1, sleeps |-> <<>>,
                    request |-> Request(ApiKeyOf(state).val,
                                        enhancePrompt(routeSlashCommand(question), state),
                                        state)])
    /\ notice' = NoNotice
    /\ UNCHANGED <<stored, envKey, cacheRef, mounted, edits, imports>>
    /\ Effect

send == SendThrows \/ SendIgnored \/ SendMissingKey \/ SendCacheHit \/ SendStart

\* lines 391-395: the reply, with a header when the user text scores negative
Wrap(q, text, st) ==
    IF sentimentScore(q) < 0 /\ Truthy(Get(st, "empathicMode"))
    THEN <<Heart>> \o text
    ELSE text

\* axios.isAxiosError(err): the empty-response Error thrown at line 388 is not one
IsAxiosError(r) == r.settled = "rejected"

\* mutant of ShouldRetry: attempt <= MAX_ATTEMPTS
ShouldRetryOffByOne(r, attempt) ==
    /\ IsAxiosError(r)
    /\ "status" \in DOMAIN r /\ r.status = 429
    /\ attempt <= MAX_ATTEMPTS

\* mutant of ShouldRetry: the status is not tested
ShouldRetryAnyAxiosError(r, attempt) ==
    /\ IsAxiosError(r)
    /\ attempt < MAX_ATTEMPTS

\* lines 406-410: retry on HTTP 429 while attempts remain
ShouldRetry(r, attempt) ==
    /\ IsAxiosError(r)
    /\ "status" \in DOMAIN r /\ r.status = 429
    /\ attempt < MAX_ATTEMPTS

\* lines 415-418
ErrorText(r) ==
    IF IsAxiosError(r) /\ Truthy(Get(r, "message"))
    THEN r.message.val
    ELSE <<GenericError>>

\* send s has returned: its locals are gone, what is kept is how it ended
Finished(s, outcome) ==
    [question |-> s.question, pc |-> "done", outcome |-> outcome]

\* mutant of Succeed: cacheRef.current.set is left out
SucceedNoCachePut(i, r) ==
    LET s == sends[i]
        wrap == Wrap(s.question, r.text.val, s.st)
    IN  /\ state' = AppendChat(state, [role |-> "assistant", text |-> wrap, sid |-> i])
        /\ busy' = FALSE
        /\ sends' = [sends EXCEPT ![i] = Finished(s, "success")]
        /\ notice' = NoNotice
        /\ UNCHANGED <<stored, envKey, cacheRef, mounted, edits, imports>>
        /\ Effect

\* lines 387-402 and the finally: a non-empty text is cached and appended
Succeed(i, r) ==
    LET s == sends[i]
        wrap == Wrap(s.question, r.text.val, s.st)
    IN  /\ cacheRef' = Put(cacheRef, s.question, wrap)
        /\ state' = AppendChat(state,
                       [role |-> "assistant", text |-> wrap, sid |-> i])
        /\ busy' = FALSE
        /\ sends' = [sends EXCEPT ![i] = Finished(s, "success")]
        /\ notice' = NoNotice
        /\ UNCHANGED <<stored, envKey, mounted, edits, imports>>
        /\ Effect

\* lines 403-414: HTTP 429 with attempts left, the loop awaits sleep(delay)
Backoff(i, r) ==
    LET s == sends[i]
    IN  /\ sends' = [sends EXCEPT ![i].pc = "sleep",
                                  ![i].attempt = s.attempt + 1,
                                  ![i].sleeps = Append(s.sleeps, s.delay)]
        /\ notice' = NoNotice
        /\ UNCHANGED <<stored, envKey, state, timer, busy, cacheRef, mounted, edits, imports>>

\* mutant of Fail: no finally, busy is left as it is
FailKeepsBusy(i, r) ==
    LET s == sends[i]
    IN  /\ state' = AppendChat(state,
                       [role |-> "assistant", text |-> ErrorText(r),
                        error |-> TRUE, sid |-> i])
        /\ sends' = [sends EXCEPT ![i] = Finished(s, "error")]
        /\ notice' = NoNotice
        /\ UNCHANGED <<stored, envKey, busy, cacheRef, mounted, edits, imports>>
        /\ Effect

\* lines 415-429: the failure is reported as an assistant message
Fail(i, r) ==
    LET s == sends[i]
    IN  /\ state' = AppendChat(state,
                       [role |-> "assistant", text |-> ErrorText(r),
                        error |-> TRUE, sid |-> i])
        /\ busy' = FALSE
        /\ sends' = [sends EXCEPT ![i] = Finished(s, "error")]
        /\ notice' = NoNotice
        /\ UNCHANGED <<stored, envKey, cacheRef, mounted, edits, imports>>
        /\ Effect

\* the request of send i settles with r and the loop body runs to its next await
Settle(i, r) ==
    /\ mounted
    /\ sends[i].pc = "request"
    /\ IF r.settled = "resolved" /\ Truthy(r.text)
       THEN Succeed(i, r)
       ELSE IF ShouldRetry(r, sends[i].attempt + 1)
            THEN Backoff(i, r)
            ELSE Fail(i, r)

\* lines 411-413, the finally at 427-429 and the next iteration up to axios.post
WakeUp(i) ==
    LET s == sends[i]
    IN  /\ mounted
        /\ s.pc = "sleep"
        /\ busy' = FALSE
        /\ sends' = [sends EXCEPT ![i].pc = "request",
                                  ![i].delay = s.delay * 2,
                                  ![i].requests = s.requests + 1,
                                  ![i].request = Request(s.request.key, s.request.contents, s.st)]
        /\ notice' = NoNotice
        /\ UNCHANGED <<stored, envKey, state, timer, cacheRef, mounted, edits, imports>>

(* --------------------------- user edits -------------------------------- *)
\* textarea onChange: setState((s) => ({ ...s, input: e.target.value }))
Type(v) ==
    /\ mounted
    /\ Get(state, "input") # JStr(v)
    /\ state' = Put(state, "input", JStr(v))
    /\ notice' = NoNotice
    /\ UNCHANGED <<stored, envKey, busy, cacheRef, sends, mounted, edits, imports>>
    /\ Effect

\* Settings onChange: setState((s) => ({ ...s, [k]: v }))
EditSetting(k, v) ==
    /\ mounted
    /\ edits < MaxEdits
    /\ Get(state, k) # v
    /\ state' = Put(state, k, v)
    /\ edits' = edits + 1
    /\ notice' = NoNotice
    /\ UNCHANGED <<stored, envKey, busy, cacheRef, sends, mounted, imports>>
    /\ Effect

(* ------------------------- import and clear ---------------------------- *)
\* mutant of Accepts: !data is not tested
AcceptsAnyObjectType(data) == TypeOf(data) = "object"

\* line 458: if (!data || typeof data !== 'object') throw
Accepts(data) == ~(~Truthy(data) \/ TypeOf(data) # "object")

\* const importChat = async (file) => ...
importChat(file) ==
    LET p == JSONparse(file)
    IN  /\ mounted
        /\ imports < MaxImports
        /\ imports' = imports + 1
        /\ IF p.ok /\ Accepts(p.val)
           THEN /\ state' = p.val
                /\ mounted' = Renders(p.val)
                /\ Effect
                /\ notice' = NoNotice
           ELSE /\ notice' = ImportFailedNotice
                /\ UNCHANGED <<state, mounted, timer>>
        /\ UNCHANGED <<stored, envKey, busy, cacheRef, sends, edits>>

\* mutant of clearChat: the answer to confirm() is not looked at
ClearWithoutConfirm(confirmed) ==
    /\ mounted
    /\ state' = Put(state, "chat", JArr(<<>>))
    /\ notice' = NoNotice
    /\ UNCHANGED <<stored, envKey, busy, cacheRef, sends, mounted, edits, imports>>
    /\ Effect

\* const clearChat = () => { if (confirm(...)) setState((s) => ({ ...s, chat: [] })) }
clearChat(confirmed) ==
    /\ mounted
    /\ IF confirmed
       THEN state' = Put(state, "chat", JArr(<<>>))
       ELSE UNCHANGED state
    /\ notice' = NoNotice
    /\ UNCHANGED <<stored, envKey, busy, cacheRef, sends, mounted, edits, imports>>
    /\ IF confirmed THEN Effect ELSE UNCHANGED timer

(* --------------------------- specification ----------------------------- *)
Next ==
    \/ send
    \/ \E i \in 1..Len(sends) : \E r \in Settlements : Settle(i, r)
    \/ \E i \in 1..Len(sends) : WakeUp(i)
    \/ \E v \in Inputs : Type(v)
    \/ \E e \in SettingEdits : EditSetting(e[1], e[2])
    \/ \E f \in Files : importChat(f)
    \/ \E c \in BOOLEAN : clearChat(c)

Spec == Init /\ [][Next]_vars

(* ---------------------- specification with fairness -------------------- *)
\* The network settles every request and every timer fires, and the event
\* loop runs a callback that is ready: a send that waits does not wait for
\* ever.
Resume ==
    \E i \in 1..Len(sends) : WakeUp(i) \/ \E r \in Settlements : Settle(i, r)

Fairness == WF_vars(Resume)

\* the steps of a session in which no file is imported and no setting edited
LiveNext ==
    \/ SendIgnored
    \/ SendMissingKey
    \/ SendCacheHit
    \/ SendStart
    \/ Resume
    \/ \E v \in Inputs : Type(v)
    \/ \E c \in BOOLEAN : clearChat(c)

LiveSpec == Init /\ [][LiveNext]_vars /\ Fairness

(* ------------------ specification of prompt composition ---------------- *)
\* texts typed into the textarea: keywords of either sign, repeated, mixed,
\* in capitals, and slash commands known and unknown
SadSadHappy == <<"s", "a", "d", " ", "s", "a", "d", " ", "h", "a", "p", "p", "y">>

PromptInputs ==
    { <<"s", "a", "d">>,
      <<"h", "a", "p", "p", "y">>,
      <<"s", "a", "d", " ", "h", "a", "p", "p", "y">>,
      SadSadHappy,
      <<"s", "a", "d", " ", "h", "u", "r", "t">>,
      <<"S", "A", "D">>,
      <<"h", "i">>,
      <<"/", "s", "u", "m", "m", "a", "r", "i", "z", "e", " ", "s", "a", "d">>,
      <<"/", "f", "o", "o", " ", "h", "a", "p", "p", "y">>,
      <<"/", "c", "o", "a", "c", "h">>,
      <<"/", "j", "o", "u", "r", "n", "a", "l", " ", "h", "a", "p", "p", "y", " ", "h", "a", "p", "p", "y">> }

\* the steps that lead to a composed prompt: text is typed, a setting is
\* edited, send composes the prompt and issues the request
PromptNext ==
    \/ \E v \in PromptInputs : Type(v)
    \/ \E e \in SettingEdits : EditSetting(e[1], e[2])
    \/ SendStart

PromptSpec == Init /\ [][PromptNext]_vars

(* -------------------- specification with persistence ------------------- *)
\* lines 49-53: the timeout fires, localStorage.setItem(key, JSON.stringify(state))
\* with the state its closure holds
Flush ==
    /\ timer.pending
    /\ stored' = JSONstringify(timer.value)
    /\ timer' = NoTimer
    /\ UNCHANGED <<envKey, state, busy, cacheRef, sends, mounted, edits, imports, notice>>

\* the steps of a session together with the writes to localStorage; every
\* request is answered at once, by a reply or by a non-429 error
PersistNext ==
    \/ send
    \/ \E i \in 1..Len(sends) :
          Settle(i, Resolved(JStr(<<"reply">>))) \/ Settle(i, NetworkError)
    \/ \E v \in Inputs : Type(v)
    \/ \E e \in SettingEdits : EditSetting(e[1], e[2])
    \/ \E f \in Files : importChat(f)
    \/ \E c \in BOOLEAN : clearChat(c)
    \/ Flush

PersistSpec == Init /\ [][PersistNext]_vars

(* ------------------------------ helpers -------------------------------- *)
Chat == state.chat.items
Chat_ == state'.chat.items
InFlight(s) == s.pc \in {"request", "sleep"}
Last(s) == s[Len(s)]
IsPrefix(s, t) == Len(s) <= Len(t) /\ SubSeq(t, 1, Len(s)) = s
Http429 == HttpError(429, Undefined)

(* -------------------------------- C1 ----------------------------------- *)
\* C1: while an accepted send is in its network phase (a request pending, or
\* a backoff sleep before a retry) the busy flag is true, at most one send
\* is in that phase, and no further call to send can be accepted.
C1_OneSendInFlight ==
    /\ \A i \in 1..Len(sends) : InFlight(sends[i]) => busy
    /\ Cardinality({i \in 1..Len(sends) : InFlight(sends[i])}) <= 1

(* -------------------------------- C2 ----------------------------------- *)
\* C2 as stated: of two sends of the same trimmed input, the second is served
\* from the cache (flagged cached, no network call), so the two together
\* issue at most one network call.
C2_SecondSendIsCached ==
    \A i, j \in 1..Len(sends) :
        (i < j /\ sends[i].question = sends[j].question)
            => /\ sends[j].outcome = "cached"
               /\ (InFlight(sends[i]) => sends[i].requests <= 1)

\* C2 amended: once a send of q has succeeded, the text it appended is what
\* the cache holds for q, and every later accepted send of q issues no
\* request and appends that text as an assistant message flagged cached,
\* whatever the settings are by then; cache keys are trimmed inputs.
C2_CachedAfterSuccess ==
    /\ [](\A q \in DOMAIN cacheRef : Trim(q) = q)
    /\ [][\A i \in 1..Len(sends) :
            (sends[i].pc = "request" /\ sends'[i].pc = "done" /\ sends'[i].outcome = "success")
                => /\ sends[i].question \in DOMAIN cacheRef'
                   /\ cacheRef'[sends[i].question] = Last(Chat_).text]_vars
    /\ [][(Len(sends') > Len(sends)
            /\ \E i \in 1..Len(sends) :
                  /\ sends[i].question = Last(sends').question
                  /\ sends[i].outcome = "success")
          => /\ sends' = Append(sends, [question |-> Trim(state.input.val),
                                        pc |-> "done", outcome |-> "cached"])
             /\ Chat_ = Chat \o
                  << [role |-> "user", text |-> Trim(state.input.val), sid |-> Len(sends')],
                     [role |-> "assistant", text |-> cacheRef[Trim(state.input.val)],
                      cached |-> TRUE, sid |-> Len(sends')] >>
             /\ UNCHANGED <<cacheRef, busy>>]_vars

\* a second send of "sad" was served from the cache after empathic mode was
\* switched off: the text still carries the header of the first reply
C2_Witness ==
    /\ mounted
    /\ Len(sends) = 2
    /\ sends[1].outcome = "success" /\ sends[2].outcome = "cached"
    /\ sends[1].question = sends[2].question
    /\ Get(state, "empathicMode") = JBool(FALSE)
    /\ Len(Chat) = 4
    /\ Chat[4] = [role |-> "assistant", text |-> <<Heart, "reply">>, cached |-> TRUE, sid |-> 2]
    /\ Chat[2] = [role |-> "assistant", text |-> <<Heart, "reply">>, sid |-> 1]

(* -------------------------------- C3 ----------------------------------- *)
BackoffDelays == <<1200, 2400>>

\* C3: a send never makes more than 3 requests; before its k-th request it
\* has slept 1200 ms, then 2400 ms, and nothing else; a 429 on the first or
\* second request appends nothing and starts the next sleep; a 429 on the
\* third ends the send with exactly one assistant message flagged error; a
\* reply that follows a 429 is appended with no error message.
C3_RetryPolicy ==
    /\ [](\A i \in 1..Len(sends) :
            InFlight(sends[i]) =>
                /\ sends[i].requests \in 1..3
                /\ IsPrefix(sends[i].sleeps, BackoffDelays)
                /\ Len(sends[i].sleeps) =
                     IF sends[i].pc = "sleep" THEN sends[i].requests
                     ELSE sends[i].requests - 1)
    /\ [][\A i \in 1..Len(sends) :
            /\ Settle(i, Http429) =>
                 IF sends[i].requests < 3
                 THEN /\ sends'[i].pc = "sleep"
                      /\ Chat_ = Chat
                 ELSE /\ sends'[i].pc = "done"
                      /\ sends'[i].outcome = "error"
                      /\ Len(Chat_) = Len(Chat) + 1
                      /\ IsPrefix(Chat, Chat_)
                      /\ Last(Chat_).role = "assistant"
                      /\ Get(Last(Chat_), "error") = TRUE
                      /\ Last(Chat_).sid = i
            /\ (Settle(i, Resolved(JStr(<<"reply">>))) /\ sends[i].requests > 1) =>
                 /\ sends'[i].pc = "done"
                 /\ Len(Chat_) = Len(Chat) + 1
                 /\ IsPrefix(Chat, Chat_)
                 /\ "error" \notin DOMAIN Last(Chat_)
                 /\ Last(Chat_).text \in {<<"reply">>, <<Heart, "reply">>}]_vars

\* a send has made its third request after sleeping 1200 ms and 2400 ms
C3_Witness ==
    \E i \in 1..Len(sends) :
        /\ sends[i].pc = "request"
        /\ sends[i].requests = 3
        /\ sends[i].sleeps = <<1200, 2400>>

(* -------------------------------- C4 ----------------------------------- *)
\* the number a stored setting holds, when it holds one
Stored(st, k) == Number(Get(st, k))

\* C4: the temperature, topP and topK of every request are the stored values
\* clamped into [0,2], [0,1] and [1,200]; topK = 0 is sent as 1.
C4_SentIsStoredClamped ==
    \A i \in 1..Len(sends) :
        "request" \in DOMAIN sends[i] =>
            LET st == sends[i].st
                cfg == sends[i].request.generationConfig
            IN  /\ ~IsNaN(Stored(st, "temperature")) =>
                      cfg.temperature = clamp(Stored(st, "temperature").val, 0, 200)
                /\ ~IsNaN(Stored(st, "topP")) =>
                      cfg.topP = clamp(Stored(st, "topP").val, 0, 100)
                /\ ~IsNaN(Stored(st, "topK")) =>
                      cfg.topK = clamp(Stored(st, "topK").val, 100, 20000)

(* -------------------------------- C5 ----------------------------------- *)
\* C5 as stated: every assistant message a send of this session produced is
\* preceded in the log by the user message of that send.
C5_UserPrecedesReply ==
    mounted =>
        \A k \in 1..Len(Chat) :
            (Chat[k].role = "assistant" /\ Chat[k].sid > 0)
                => \E j \in 1..(k - 1) : Chat[j].role = "user" /\ Chat[j].sid = Chat[k].sid

\* C5 amended: the log changes only by appending at its tail, by clear and by
\* import; an assistant message is appended by a send whose user message was
\* appended before it; so a user message that is still in the log precedes
\* the assistant message of its send. After a clear or an import that came
\* between the two, the assistant message is in the log without it.
C5_AppendOrder ==
    /\ [](mounted =>
            \A k \in 1..Len(Chat) :
                (Chat[k].role = "assistant" /\ Chat[k].sid > 0)
                    => /\ Chat[k].sid <= Len(sends)
                       /\ \A j \in 1..Len(Chat) :
                             (Chat[j].role = "user" /\ Chat[j].sid = Chat[k].sid) => j < k)
    /\ [][(mounted' /\ Chat_ # Chat)
            => \/ clearChat(TRUE)
               \/ \E f \in Files : importChat(f)
               \/ /\ IsPrefix(Chat, Chat_)
                  /\ \A k \in (Len(Chat) + 1)..Len(Chat_) :
                        Chat_[k].role = "assistant"
                            => \/ Chat_[k].sid <= Len(sends)
                               \/ /\ k > 1
                                  /\ Chat_[k - 1].role = "user"
                                  /\ Chat_[k - 1].sid = Chat_[k].sid]_vars

\* two sends overlapped and the second finished first: the log holds the
\* messages in the order they were appended
C5_Witness ==
    /\ mounted
    /\ Len(Chat) = 4
    /\ Chat[1].role = "user" /\ Chat[1].sid = 1
    /\ Chat[2].role = "user" /\ Chat[2].sid = 2
    /\ Chat[3].role = "assistant" /\ Chat[3].sid = 2
    /\ Chat[4].role = "assistant" /\ Chat[4].sid = 1

(* -------------------------------- C6 ----------------------------------- *)
NotRetried == {Resolved(Undefined), NetworkError, HttpError(500, JStr(<<"internal">>))}

\* C6: a request that fails with anything but HTTP 429 ends its send at once:
\* exactly one assistant message flagged error is appended, with the remote
\* message when there is one and the generic text otherwise; a first request
\* that fails so was the only one; a finished send does nothing more; and
\* only clear and import take messages out of the log.
C6_FailsWithoutRetry ==
    /\ [][\A i \in 1..Len(sends) : \A r \in NotRetried :
            Settle(i, r)
                => /\ sends'[i] = [question |-> sends[i].question, pc |-> "done",
                                   outcome |-> "error"]
                   /\ Chat_ = Chat \o
                        << [role |-> "assistant",
                            text |-> IF r = HttpError(500, JStr(<<"internal">>))
                                     THEN <<"internal">>
                                     ELSE <<GenericError>>,
                            error |-> TRUE, sid |-> i] >>
                   /\ (sends[i].attempt = 0 => sends[i].requests = 1)]_vars
    /\ [][\A i \in 1..Len(sends) : sends[i].pc = "done" => sends'[i] = sends[i]]_vars
    /\ [][(mounted' /\ ~clearChat(TRUE) /\ ~(\E f \in Files : importChat(f)))
            => IsPrefix(Chat, Chat_)]_vars

\* a send ended with the remote error message in the log
C6_Witness ==
    /\ mounted
    /\ ~busy
    /\ \E i \in 1..Len(sends) :
          /\ sends[i].outcome = "error"
          /\ Chat # <<>>
          /\ Last(Chat) = [role |-> "assistant", text |-> <<"internal">>,
                           error |-> TRUE, sid |-> i]

(* -------------------------------- C7 ----------------------------------- *)
\* C7: with no API key in Session State or in the build environment, a call
\* of send with a non-empty input changes neither the Session State (the log
\* and the input text included) nor the busy flag, starts no send and no
\* request, and raises the missing-key notice.
C7_MissingKeyFailsFast ==
    [][(/\ mounted
        /\ InputIsString
        /\ Trim(state.input.val) # <<>>
        /\ ~Truthy(ApiKeyOf(state))
        /\ send)
       => /\ UNCHANGED <<state, busy, cacheRef, sends>>
          /\ (~busy => notice' = MissingKeyNotice)]_vars

\* send was called with text typed and no key: only the notice shows it
C7_Witness ==
    /\ mounted
    /\ notice = MissingKeyNotice
    /\ ~Truthy(ApiKeyOf(state))
    /\ Trim(state.input.val) # <<>>
    /\ ~busy
    /\ sends = <<>>
    /\ Chat = <<>>

(* -------------------------------- C8 ----------------------------------- *)
\* C8: while the app is rendered, the busy flag is true only with a send in
\* its network phase; the step that finishes a send leaves the busy flag
\* false; and, requests being settled and timers fired, every accepted send
\* reaches the state where it has finished and the busy flag is false.
C8_ReturnsToIdle ==
    /\ []((mounted /\ busy) => \E i \in 1..Len(sends) : InFlight(sends[i]))
    /\ [][\A i \in 1..Len(sends) :
            (sends[i].pc # "done" /\ sends'[i].pc = "done") => ~busy']_vars
    /\ \A i \in 1..MaxSends :
          (Len(sends) >= i)
              ~> (Len(sends) >= i /\ sends[i].pc = "done" /\ ~busy)

\* one send ended by an error and one by a reply, and the app is idle
C8_Witness ==
    /\ mounted
    /\ ~busy
    /\ Len(sends) = 2
    /\ sends[1].outcome = "error"
    /\ sends[2].outcome = "success"

(* -------------------------------- C9 ----------------------------------- *)
\* C9: an import replaces the Session State by the parsed value exactly when
\* the file parses to a non-null object (typeof "object", arrays included);
\* for every other file the state is unchanged and the notice is raised.
C9_ImportAcceptsObjects ==
    [][\A f \in Files :
          importChat(f)
              => IF f.syntax /\ f.val.type \in {"object", "array"}
                 THEN state' = f.val
                 ELSE state' = state /\ notice' = ImportFailedNotice]_vars

\* {"chat": "not-an-array"} was imported as it is
C9_Witness == imports = 1 /\ state = NotArrayChat

(* -------------------------------- C10 ---------------------------------- *)
\* a JSON text that holds a Session State object
HoldsSessionState(item) ==
    /\ "absent" \notin DOMAIN item
    /\ item.syntax
    /\ item.val.type = "object"
    /\ Renders(item.val)

\* C10: the Session State loaded at start-up is the stored object when the
\* stored item holds one, and the default otherwise, and the app renders.
C10_LoadFallsBackToDefault ==
    (state = LoadState(stored, DefaultState))
        => /\ state = IF HoldsSessionState(stored) THEN stored.val ELSE DefaultState
           /\ mounted

(* -------------------------------- C11 ---------------------------------- *)
\* C11: after every change of the Session State a write of exactly that
\* state is pending, and when no write is pending the store holds the
\* serialization of the latest Session State: the value a timeout writes is
\* the state current when it fires, and once changes stop and the timeout
\* has fired the store is up to date.
C11_DebouncedPersistence ==
    IF timer.pending
    THEN timer.value = state
    ELSE stored = JSONstringify(state)

(* -------------------------------- C12 ---------------------------------- *)
\* C12: a clear the user declines leaves the Session State as it is; a clear
\* the user confirms empties the message list and leaves every other field
\* of the Session State as it is; neither touches the response cache.
C12_ClearIsGated ==
    [][\A c \in BOOLEAN :
          clearChat(c)
              => /\ cacheRef' = cacheRef
                 /\ IF c
                    THEN /\ state'.chat = JArr(<<>>)
                         /\ DOMAIN state' = DOMAIN state
                         /\ \A k \in DOMAIN state \ {"chat"} : state'[k] = state[k]
                    ELSE state' = state]_vars

\* the log was emptied by a confirmed clear after a reply had been cached:
\* the key typed into Settings and the cache are still there
C12_Witness ==
    /\ mounted
    /\ imports = 0
    /\ Chat = <<>>
    /\ \E i \in 1..Len(sends) : sends[i].outcome = "success"
    /\ DOMAIN cacheRef # {}
    /\ Get(state, "apiKey") = JStr(<<"user-key">>)

(* -------------------------------- C13 ---------------------------------- *)
\* the keywords of the list ws that occur in t, each taken once
KeywordsIn(t, ws) == {k \in 1..Len(ws) : Includes(ToLowerCase(t), ws[k])}

\* distinct positive keywords present minus distinct negative keywords present
DistinctScore(t) == Cardinality(KeywordsIn(t, POS)) - Cardinality(KeywordsIn(t, NEG))

Tones == {"gentle, validating, non-judgmental", "encouraging, balanced", "neutral, respectful"}

\* C13: in the prompt of every request the one tone descriptor is the one the
\* sign of the score of the command-expanded text selects (negative: gentle,
\* validating, non-judgmental; positive: encouraging, balanced; zero: neutral,
\* respectful), the score being distinct positive keywords present minus
\* distinct negative keywords present; the 4-step structure instruction is
\* there exactly when empathic mode is on; and the command-expanded text is
\* the suffix of the prompt.
C13_ToneFollowsScore ==
    \A i \in 1..Len(sends) :
        "request" \in DOMAIN sends[i] =>
            LET x == routeSlashCommand(sends[i].question)
                c == sends[i].request.contents
                sc == DistinctScore(x)
            IN  /\ {k \in 1..Len(c) : c[k] \in Tones} = {2}
                /\ c[2] = (IF sc < 0 THEN "gentle, validating, non-judgmental"
                           ELSE IF sc > 0 THEN "encouraging, balanced"
                           ELSE "neutral, respectful")
                /\ (\E k \in 1..Len(c) : c[k] = Scaffold)
                      <=> (Get(sends[i].st, "empathicMode") = JBool(TRUE))
                /\ Len(c) >= Len(x)
                /\ SubSeq(c, Len(c) - Len(x) + 1, Len(c)) = x

\* "sad sad happy" was sent with empathic mode off: one negative and one
\* positive keyword, the tone is neutral and there is no structure instruction
C13_Witness ==
    \E i \in 1..Len(sends) :
        /\ sends[i].question = SadSadHappy
        /\ "request" \in DOMAIN sends[i]
        /\ sends[i].request.contents =
              <<Preamble, "neutral, respectful", ".", UserMessageLabel>> \o SadSadHappy

====
